---- MODULE Spec2Model ----
(***************************************************************************)
(* Model of src/TicTacToe.py: the TicTacToe game object (board, per-player *)
(* move lists, combined move list, current player), its operations         *)
(* add_move, get_available_moves, check_win and minimax, and the           *)
(* interaction loop play_tictactoe.                                        *)
(***************************************************************************)
EXTENDS Integers, Sequences, FiniteSets, TLC

VARIABLES
    \* the fields of the game object
    currentBoard, playerOneMoves, playerTwoMoves, allMoves, currentPlayer,
    \* play_tictactoe: position in the loop and its locals
    pc, winner, gameOver, playerMove, cpuMove, score,
    \* a direct caller of add_move: the argument and the outcome of the last
    \* call, and the number of calls made
    lastIndex, exc, calls,
    \* a running minimax: the frames of the recursion (the last one is the
    \* running call); ret lists the outermost calls that returned, each with
    \* its flag and the move and score it returned
    stack, ret

gameVars == <<currentBoard, playerOneMoves, playerTwoMoves, allMoves, currentPlayer>>
loopVars == <<winner, gameOver, playerMove, cpuMove, score>>
apiVars == <<lastIndex, exc, calls>>
searchVars == <<stack, ret>>

vars == <<gameVars, pc, loopVars, apiVars, searchVars>>

\* class constants PLAYER_ONE, PLAYER_TWO and the "no winner" value of check_win
PLAYER_ONE == 0
PLAYER_TWO == 1
NO_WINNER == -1

\* number of cells of the board: [' ']*9
BoardSize == 9

Cells == 0 .. (BoardSize - 1)

\* "no exception"
None == "None"

\* value of an integer local that has not been assigned yet; no index and no
\* score has this value
Unbound == -99

\* the 8 lines of check_win, in the order of the list
winningCombos ==
    << {0,1,2}, {3,4,5}, {6,7,8}, {0,3,6}, {1,4,7}, {2,5,8}, {0,4,8}, {2,4,6} >>

Range(s) == { s[i] : i \in 1 .. Len(s) }

\* TicTacToe.__init__
NewGame ==
    [ currentBoard   |-> [ i \in Cells |-> " " ],
      playerOneMoves |-> << >>,
      playerTwoMoves |-> << >>,
      allMoves       |-> << >>,
      currentPlayer  |-> PLAYER_ONE ]

\* get_num_moves
get_num_moves(g) == Len(g.allMoves)

\* enumerate(self.currentBoard): the indices in list order
BoardIndices == [ i \in 1 .. BoardSize |-> i - 1 ]

\* get_available_moves without the test of line 39: every index
get_available_moves_all(g) == BoardIndices

get_available_moves(g) ==
    SelectSeq(BoardIndices, LAMBDA i : g.currentBoard[i] = " ")

\* Python list index: -9..-1 address the cells from the end, anything outside
\* -9..8 raises IndexError
InListRange(moveIndex) == moveIndex >= -BoardSize /\ moveIndex < BoardSize

ListIndex(moveIndex) == IF moveIndex < 0 THEN moveIndex + BoardSize ELSE moveIndex

\* add_move, lines 59-67: the appends, executed before the board assignment
AddMoveAppends(g, moveIndex) ==
    [ g EXCEPT
        !.playerOneMoves = IF g.currentPlayer = PLAYER_ONE
                           THEN Append(@, moveIndex) ELSE @,
        !.playerTwoMoves = IF g.currentPlayer = PLAYER_ONE
                           THEN @ ELSE Append(@, moveIndex),
        !.allMoves       = Append(@, moveIndex) ]

\* the exception add_move raises on moveIndex, None when it returns normally
add_move_raises(g, moveIndex) ==
    IF InListRange(moveIndex) THEN None ELSE "IndexError"

\* add_move without line 68: the board is not written
add_move_no_board(g, moveIndex) ==
    LET a == AddMoveAppends(g, moveIndex)
    IN  IF InListRange(moveIndex)
        THEN [ a EXCEPT !.currentPlayer = (g.currentPlayer + 1) % 2 ]
        ELSE a

\* add_move: the state of the game after the call (also when it raised)
add_move(g, moveIndex) ==
    LET a == AddMoveAppends(g, moveIndex)
        symbol == IF g.currentPlayer = PLAYER_ONE THEN "x" ELSE "o"
    IN  IF InListRange(moveIndex)
        THEN [ a EXCEPT !.currentBoard[ListIndex(moveIndex)] = symbol,
                        !.currentPlayer = (g.currentPlayer + 1) % 2 ]
        ELSE a

\* check_win on the sets of the two players' moves and the number of moves.
\* The loop overwrites winner at every combo one of the players holds, so the
\* last such combo of the list decides, and within a combo PLAYER_ONE is
\* tested first; over starts as "9 moves made".
CheckWin(p1, p2, numMoves) ==
    LET held == { k \in 1 .. Len(winningCombos) :
                    winningCombos[k] \subseteq p1 \/ winningCombos[k] \subseteq p2 }
    IN  IF held = {}
        THEN [ winner |-> NO_WINNER, over |-> (numMoves = 9) ]
        ELSE LET last == CHOOSE k \in held : \A j \in held : j <= k
             IN  [ winner |-> IF winningCombos[last] \subseteq p1
                              THEN PLAYER_ONE ELSE PLAYER_TWO,
                   over |-> TRUE ]

\* check_win without the elif branch of lines 91-92
check_win_player_one_only(g) ==
    CheckWin(Range(g.playerOneMoves), {}, Len(g.allMoves))

check_win(g) ==
    CheckWin(Range(g.playerOneMoves), Range(g.playerTwoMoves), Len(g.allMoves))

\* max(scores) / min(scores) and scores.index(bestScore): first position
MaxOf(scores) ==
    LET S == Range(scores) IN CHOOSE x \in S : \A y \in S : y <= x
MinOf(scores) ==
    LET S == Range(scores) IN CHOOSE x \in S : \A y \in S : x <= y
IndexOfLast(scores, v) ==
    CHOOSE i \in 1 .. Len(scores) : scores[i] = v /\ \A j \in (i + 1) .. Len(scores) : scores[j] # v

IndexOf(scores, v) ==
    CHOOSE i \in 1 .. Len(scores) : scores[i] = v /\ \A j \in 1 .. (i - 1) : scores[j] # v

\* the score of a finished game counted from 9 and not from 10
TerminalScoreFromNine(g, w) ==
    IF w = PLAYER_ONE THEN get_num_moves(g) - 9
    ELSE IF w = PLAYER_TWO THEN 9 - get_num_moves(g)
    ELSE 0

\* minimax, lines 151-163: score of a finished game
TerminalScore(g, w) ==
    IF w = PLAYER_ONE THEN get_num_moves(g) - 10
    ELSE IF w = PLAYER_TWO THEN 10 - get_num_moves(g)
    ELSE 0

\* line 154: bestMove of a finished game, the most recent move
TerminalMoveOldest(g) == g.allMoves[1]

TerminalMove(g) == g.allMoves[Len(g.allMoves)]

\* lines 151-163: the value returned for a finished game whose check_win is cw
TerminalResult(g, cw) ==
    [ move |-> TerminalMove(g), score |-> TerminalScore(g, cw.winner) ]

\* lines 187-190: the best of the collected scores
BestScoreSwapped(maximize, scores) ==
    IF maximize THEN MinOf(scores) ELSE MaxOf(scores)

BestScore(maximize, scores) ==
    IF maximize THEN MaxOf(scores) ELSE MinOf(scores)

\* line 177: the flag passed to the recursive call
ChildFlagSame(maximize) == maximize

ChildFlag(maximize) == ~maximize

\* minimax: [move, score]
RECURSIVE minimax(_, _)
minimax(g, maximize) ==
    LET cw == check_win(g)
    IN
    IF cw.over
    THEN TerminalResult(g, cw)
    ELSE LET avail == get_available_moves(g)
                 res == [ i \in 1 .. Len(avail) |->
                            minimax(add_move(g, avail[i]), ChildFlag(maximize)) ]
                 scores == [ i \in 1 .. Len(avail) |-> res[i].score ]
                 moves == [ i \in 1 .. Len(avail) |->
                            IF maximize THEN avail[i] ELSE res[i].move ]
                 bestScore == BestScore(maximize, scores)
             IN  [ move |-> moves[IndexOf(scores, bestScore)], score |-> bestScore ]

\* the game object the variables hold
Game ==
    [ currentBoard   |-> currentBoard,
      playerOneMoves |-> playerOneMoves,
      playerTwoMoves |-> playerTwoMoves,
      allMoves       |-> allMoves,
      currentPlayer  |-> currentPlayer ]

SetGame(g) ==
    /\ currentBoard' = g.currentBoard
    /\ playerOneMoves' = g.playerOneMoves
    /\ playerTwoMoves' = g.playerTwoMoves
    /\ allMoves' = g.allMoves
    /\ currentPlayer' = g.currentPlayer

InitCommon ==
    /\ currentBoard = NewGame.currentBoard
    /\ playerOneMoves = NewGame.playerOneMoves
    /\ playerTwoMoves = NewGame.playerTwoMoves
    /\ allMoves = NewGame.allMoves
    /\ currentPlayer = NewGame.currentPlayer
    /\ winner = Unbound
    /\ gameOver = FALSE
    /\ playerMove = Unbound
    /\ cpuMove = Unbound
    /\ score = Unbound
    /\ lastIndex = Unbound
    /\ exc = None
    /\ calls = 0
    /\ stack = << >>
    /\ ret = << >>

(***************************************************************************)
(* minimax run step by step: one frame per active call.  A frame holds the *)
(* receiver (self), the flag and the two lists built by the loop; the loop *)
(* position is the length of scores.                                       *)
(***************************************************************************)
Frame(g, maximize) ==
    [ self |-> g, maximize |-> maximize, moves |-> << >>, scores |-> << >> ]

Top == stack[Len(stack)]

\* lines 148-151: the running call found its game over
FrameOver(f) == check_win(f.self).over

\* line 170: the loop has a next possibleMove
FrameHasNext(f) == Len(f.scores) < Len(get_available_moves(f.self))

FramePossibleMove(f) == get_available_moves(f.self)[Len(f.scores) + 1]

\* lines 186-195: the value returned after the loop
BestResult(f) ==
    LET bestScore == BestScore(f.maximize, f.scores)
    IN  [ move |-> f.moves[IndexOf(f.scores, bestScore)], score |-> bestScore ]

\* lines 177-184 in the caller: the returned value lands in its lists; the
\* outermost call hands it to whoever started the search
Deliver(r) ==
    IF Len(stack) = 1
    THEN /\ stack' = << >>
         /\ ret' = Append(ret, [ maximize |-> Top.maximize,
                                 move |-> r.move, score |-> r.score ])
         /\ pc' = "returned"
    ELSE LET caller == stack[Len(stack) - 1]
             upd == [ caller EXCEPT
                        !.scores = Append(@, r.score),
                        !.moves = Append(@, IF caller.maximize
                                            THEN FramePossibleMove(caller)
                                            ELSE r.move) ]
         IN  /\ stack' = [ SubSeq(stack, 1, Len(stack) - 1)
                              EXCEPT ![Len(stack) - 1] = upd ]
             /\ UNCHANGED <<ret, pc>>

\* a caller invokes minimax(maximize) on the game
StartSearch(maximize) ==
    /\ pc = "idle"
    /\ stack' = << Frame(Game, maximize) >>
    /\ pc' = "minimax"
    /\ UNCHANGED <<gameVars, loopVars, apiVars, ret>>

\* the caller's frame had possibleGame been self itself and not a copy
CallerAfterAlias(f, possibleGame) == [ f EXCEPT !.self = possibleGame ]

\* lines 173-174: possibleGame is a deep copy, so the add_move on it leaves
\* the caller's frame, its self included, as it was
CallerAfterDeepcopy(f, possibleGame) == f

\* lines 170-177: copy the game, add the possible move, call minimax on it
SearchDescend ==
    /\ pc = "minimax"
    /\ ~FrameOver(Top)
    /\ FrameHasNext(Top)
    /\ LET possibleGame == add_move(Top.self, FramePossibleMove(Top))
       IN  stack' = Append([ stack EXCEPT ![Len(stack)] =
                                 CallerAfterDeepcopy(Top, possibleGame) ],
                           Frame(possibleGame, ChildFlag(Top.maximize)))
    /\ UNCHANGED <<gameVars, pc, loopVars, apiVars, ret>>

\* lines 151-163 and 195
SearchReturnTerminal ==
    /\ pc = "minimax"
    /\ FrameOver(Top)
    /\ Deliver(TerminalResult(Top.self, check_win(Top.self)))
    /\ UNCHANGED <<gameVars, loopVars, apiVars>>

\* lines 186-195
SearchReturnBest ==
    /\ pc = "minimax"
    /\ ~FrameOver(Top)
    /\ ~FrameHasNext(Top)
    /\ Deliver(BestResult(Top))
    /\ UNCHANGED <<gameVars, loopVars, apiVars>>

InitSearch == InitCommon /\ pc = "idle"

NextSearch ==
    \/ \E maximize \in BOOLEAN : StartSearch(maximize)
    \/ SearchDescend
    \/ SearchReturnTerminal
    \/ SearchReturnBest

SpecSearch == InitSearch /\ [][NextSearch]_vars

(***************************************************************************)
(* play_tictactoe: the interaction loop.  The human's input is any integer *)
(* of Inputs or something that is no number; the computer plays the move   *)
(* minimax(True) returns.                                                  *)
(***************************************************************************)
\* how far beyond 1..9 the integers typed by the human go
InputSlack == 1

Inputs == (1 - InputSlack) .. (BoardSize + InputSlack)

\* the validation without the test of line 117
ValidInputRangeOnly(g, n) == n \in 1 .. 9

\* get_player_move, lines 111-121: the input is accepted
ValidInput(g, n) ==
    /\ n \in 1 .. 9
    /\ (n - 1) \in Range(get_available_moves(g))

\* line 247, the input passes the validation: return playerMove-1
GetPlayerMove(n) ==
    /\ pc = "get_player_move"
    /\ ValidInput(Game, n)
    /\ playerMove' = n - 1
    /\ pc' = "add_player_move"
    /\ UNCHANGED <<gameVars, winner, gameOver, cpuMove, score, apiVars, searchVars>>

\* lines 113-118: out of range or already taken, ask again
RejectInput(n) ==
    /\ pc = "get_player_move"
    /\ ~ValidInput(Game, n)
    /\ UNCHANGED vars

\* lines 107-109: not an int, ask again
RejectNotANumber ==
    /\ pc = "get_player_move"
    /\ UNCHANGED vars

\* line 250
AddPlayerMove ==
    /\ pc = "add_player_move"
    /\ SetGame(add_move(Game, playerMove))
    /\ pc' = IF add_move_raises(Game, playerMove) = None
             THEN "check_player" ELSE "crashed"
    /\ UNCHANGED <<loopVars, apiVars, searchVars>>

\* lines 254-256 without the break of line 256
CheckPlayerNoBreak ==
    /\ pc = "check_player"
    /\ winner' = check_win(Game).winner
    /\ gameOver' = check_win(Game).over
    /\ pc' = "minimax_call"
    /\ UNCHANGED <<gameVars, playerMove, cpuMove, score, apiVars, searchVars>>

\* lines 254-256
CheckPlayer ==
    /\ pc = "check_player"
    /\ winner' = check_win(Game).winner
    /\ gameOver' = check_win(Game).over
    /\ pc' = IF check_win(Game).over THEN "done" ELSE "minimax_call"
    /\ UNCHANGED <<gameVars, playerMove, cpuMove, score, apiVars, searchVars>>

LoopMaximizeFalse == FALSE

\* the flag play_tictactoe passes to minimax, line 260
LoopMaximize == TRUE

\* line 260
CpuMinimax ==
    /\ pc = "minimax_call"
    /\ \E r \in { minimax(Game, LoopMaximize) } :
          cpuMove' = r.move /\ score' = r.score
    /\ pc' = "add_cpu_move"
    /\ UNCHANGED <<gameVars, winner, gameOver, playerMove, apiVars, searchVars>>

\* line 262
AddCpuMove ==
    /\ pc = "add_cpu_move"
    /\ SetGame(add_move(Game, cpuMove))
    /\ pc' = IF add_move_raises(Game, cpuMove) = None
             THEN "check_cpu" ELSE "crashed"
    /\ UNCHANGED <<loopVars, apiVars, searchVars>>

\* line 266 and the loop condition of line 243
CheckCpu ==
    /\ pc = "check_cpu"
    /\ winner' = check_win(Game).winner
    /\ gameOver' = check_win(Game).over
    /\ pc' = IF check_win(Game).over THEN "done" ELSE "get_player_move"
    /\ UNCHANGED <<gameVars, playerMove, cpuMove, score, apiVars, searchVars>>

Init == InitCommon /\ pc = "get_player_move"

Next ==
    \/ \E n \in Inputs : GetPlayerMove(n)
    \/ \E n \in Inputs : RejectInput(n)
    \/ RejectNotANumber
    \/ AddPlayerMove
    \/ CheckPlayer
    \/ CpuMinimax
    \/ AddCpuMove
    \/ CheckCpu

Spec == Init /\ [][Next]_vars

\* line 260 seen from the loop: the call of minimax returns and the loop
\* goes on to line 262
CpuMinimaxReturns ==
    /\ pc = "minimax_call"
    /\ cpuMove' \in Cells
    /\ score' \in -BoardSize .. BoardSize
    /\ pc' = "add_cpu_move"
    /\ UNCHANGED <<gameVars, winner, gameOver, playerMove, apiVars, searchVars>>

\* the statements of the loop body that run without waiting for anyone
LoopStep ==
    AddPlayerMove \/ CheckPlayer \/ CpuMinimaxReturns \/ AddCpuMove \/ CheckCpu

\* play_tictactoe as a running program: the interpreter executes the next
\* statement, and at every prompt the human at some point types an input
\* that get_player_move accepts
SpecFair ==
    /\ Init
    /\ [][Next]_vars
    /\ WF_vars(LoopStep)
    /\ WF_vars(\E n \in Inputs : GetPlayerMove(n))

(***************************************************************************)
(* play_tictactoe with the call of line 260 run step by step: the loop     *)
(* starts minimax(True) on its game, the search runs frame by frame, and   *)
(* the loop takes the returned pair.                                       *)
(***************************************************************************)
\* line 260: the call
CpuStartSearch ==
    /\ pc = "minimax_call"
    /\ stack' = << Frame(Game, LoopMaximize) >>
    /\ pc' = "minimax"
    /\ UNCHANGED <<gameVars, loopVars, apiVars, ret>>

\* line 260: cpuMove, score = the returned pair
CpuTakeResult ==
    /\ pc = "returned"
    /\ cpuMove' = ret[Len(ret)].move
    /\ score' = ret[Len(ret)].score
    /\ pc' = "add_cpu_move"
    /\ UNCHANGED <<gameVars, winner, gameOver, playerMove, apiVars, searchVars>>

NextLoopSearch ==
    \/ \E n \in Inputs : GetPlayerMove(n)
    \/ \E n \in Inputs : RejectInput(n)
    \/ RejectNotANumber
    \/ AddPlayerMove
    \/ CheckPlayer
    \/ CpuStartSearch
    \/ SearchDescend
    \/ SearchReturnTerminal
    \/ SearchReturnBest
    \/ CpuTakeResult
    \/ AddCpuMove
    \/ CheckCpu

SpecLoopSearch == Init /\ [][NextLoopSearch]_vars

(***************************************************************************)
(* A caller that uses the game object directly: add_move with any integer  *)
(* of ApiIndices, at most MaxCalls times, and minimax(True) on the fresh    *)
(* game.                                                                   *)
(***************************************************************************)
\* how far beyond the indices a Python list of 9 accepts (-9..8) the
\* arguments go
ApiSlack == 1

\* number of add_move calls explored
MaxCalls == 2

ApiIndices == (-BoardSize - ApiSlack) .. (BoardSize - 1 + ApiSlack)

\* add_move(moveIndex) called from outside
ApiAddMove(moveIndex) ==
    /\ pc = "api"
    /\ calls < MaxCalls
    /\ SetGame(add_move(Game, moveIndex))
    /\ exc' = add_move_raises(Game, moveIndex)
    /\ lastIndex' = moveIndex
    /\ calls' = calls + 1
    /\ UNCHANGED <<pc, loopVars, searchVars>>

\* minimax(True) called from outside on the game as __init__ left it
ApiMinimax ==
    /\ pc = "api"
    /\ Game = NewGame
    /\ ret = << >>
    /\ \E r \in { minimax(Game, TRUE) } :
          ret' = << [ maximize |-> TRUE, move |-> r.move, score |-> r.score ] >>
    /\ UNCHANGED <<gameVars, pc, loopVars, apiVars, stack>>

InitApi == InitCommon /\ pc = "api"

NextApi == \E moveIndex \in ApiIndices : ApiAddMove(moveIndex)

SpecApi == InitApi /\ [][NextApi]_vars

NextApiSearch ==
    \/ \E moveIndex \in ApiIndices : ApiAddMove(moveIndex)
    \/ ApiMinimax

SpecApiSearch == InitApi /\ [][NextApiSearch]_vars

(***************************************************************************)
(* Properties                                                              *)
(***************************************************************************)

\* C1: in the interaction loop, with the human playing any available cell
\* and the computer playing the move of minimax(True), check_win never
\* reports PlayerOne as the winner: the computer never loses.
C1_ComputerNeverLoses ==
    /\ check_win(Game).winner # PLAYER_ONE
    /\ winner # PLAYER_ONE

\* a game of the loop that ran to its end after the computer answered a
\* human move with the move of minimax(True)
C1_Witness ==
    /\ pc = "done"
    /\ gameOver
    /\ cpuMove # Unbound
    /\ Len(playerTwoMoves) >= 1
    /\ winner \in {PLAYER_TWO, NO_WINNER}

\* the running call is at its return statement for a game that is not over
AtBestReturn == pc = "minimax" /\ ~FrameOver(Top) /\ ~FrameHasNext(Top)

\* C2: for every non-terminal state reached by alternating play that stops
\* at the first terminal state, and for both values of the flag, the move
\* minimax returns is one of get_available_moves() of that state.
C2_MoveIsAvailable ==
    AtBestReturn =>
        BestResult(Top).move \in Range(get_available_moves(Top.self))

\* a minimising call on a game of three moves returns a cell that is empty
C2_Witness ==
    /\ AtBestReturn
    /\ ~Top.maximize
    /\ Len(Top.self.allMoves) = 3
    /\ Top.self.currentBoard[BestResult(Top).move] = " "

\* C3: minimax(True) on a freshly created game returns score 0.
C3_FreshGameScoreZero ==
    \A i \in 1 .. Len(ret) : ret[i].maximize => ret[i].score = 0

\* minimax(True) has returned for the game as __init__ left it
C3_Witness ==
    /\ Game = NewGame
    /\ Len(ret) = 1
    /\ ret[1].maximize
    /\ ret[1].score = 0

\* the add_move call of the step: its argument is lastIndex'
IsAddMoveCall == calls' = calls + 1

\* C4: add_move on an occupied cell fails with InvalidMoveError and leaves
\* the board, both per-player move lists, the combined move list and the
\* current player as they were.
C4_OccupiedCellRejected ==
    [][ (IsAddMoveCall /\ lastIndex' \in Cells /\ currentBoard[lastIndex'] # " ")
          => (exc' = "InvalidMoveError" /\ UNCHANGED gameVars) ]_vars

\* C5: add_move with an index outside [0,8] fails with InvalidMoveError
\* without recording the index in a move list, changing a cell or flipping
\* the current player.
C5_OutOfRangeRejected ==
    [][ (IsAddMoveCall /\ lastIndex' \notin Cells)
          => (exc' = "InvalidMoveError" /\ UNCHANGED gameVars) ]_vars

\* one of the players' move lists holds a whole winning line
HoldsLine(ms) ==
    \E k \in 1 .. Len(winningCombos) : winningCombos[k] \subseteq Range(ms)

\* the player who made the last move of g
LastMover(g) == IF g.currentPlayer = PLAYER_ONE THEN PLAYER_TWO ELSE PLAYER_ONE

MovesOf(g, p) == IF p = PLAYER_ONE THEN g.playerOneMoves ELSE g.playerTwoMoves

\* the last move of g completed a line for the player who made it
LastMoveCompletesLine(g) ==
    /\ Len(g.allMoves) >= 1
    /\ \E k \in 1 .. Len(winningCombos) :
          /\ g.allMoves[Len(g.allMoves)] \in winningCombos[k]
          /\ winningCombos[k] \subseteq Range(MovesOf(g, LastMover(g)))

\* C6: in every state reached by alternating play that stops at the first
\* terminal state, check_win returns PlayerOne as winner exactly when
\* PlayerOne's moves contain a winning line, PlayerTwo exactly when
\* PlayerTwo's do, and -1 otherwise; over is true exactly when there is a
\* winner or all 9 cells are filled; a move that completes a line for the
\* player who made it yields (that player, true), also as 9th move.
C6_CheckWinMatchesLines ==
    pc = "minimax" =>
        LET g == Top.self
            cw == check_win(g)
            one == HoldsLine(g.playerOneMoves)
            two == HoldsLine(g.playerTwoMoves)
            full == \A i \in Cells : g.currentBoard[i] # " "
        IN  /\ cw.winner \in {PLAYER_ONE, PLAYER_TWO, NO_WINNER}
            /\ cw.winner = PLAYER_ONE <=> one
            /\ cw.winner = PLAYER_TWO <=> two
            /\ cw.winner = NO_WINNER <=> (~one /\ ~two)
            /\ cw.over <=> (cw.winner # NO_WINNER \/ full)
            /\ LastMoveCompletesLine(g) =>
                  cw = [ winner |-> LastMover(g), over |-> TRUE ]

\* PlayerOne completes a line with the 9th move
C6_Witness ==
    /\ pc = "minimax"
    /\ Len(Top.self.allMoves) = 9
    /\ LastMoveCompletesLine(Top.self)
    /\ check_win(Top.self) = [ winner |-> PLAYER_ONE, over |-> TRUE ]

\* number of cells of g that are not empty
NonEmptyCells(g) == Cardinality({ i \in Cells : g.currentBoard[i] # " " })

MoveCountMatchesBoard(g) ==
    /\ Len(get_available_moves(g)) + Len(g.allMoves) = 9
    /\ get_num_moves(g) = NonEmptyCells(g)

\* C7: in every state of a game, the one minimax is called on and every
\* hypothetical state the search builds, the number of available moves
\* plus the length of allMoves is 9, and the number of completed moves is
\* the number of non-empty cells.
C7_AvailablePlusMovesIsNine ==
    /\ MoveCountMatchesBoard(Game)
    /\ pc = "minimax" => MoveCountMatchesBoard(Top.self)

\* a hypothetical state five moves deep, four cells left
C7_Witness ==
    /\ pc = "minimax"
    /\ Len(Top.self.allMoves) = 5
    /\ Len(get_available_moves(Top.self)) = 4
    /\ MoveCountMatchesBoard(Top.self)

\* playing the empty cell m completes a line for PlayerTwo
CompletesLineForTwo(g, m) ==
    \E k \in 1 .. Len(winningCombos) :
        /\ m \in winningCombos[k]
        /\ (winningCombos[k] \ {m}) \subseteq Range(g.playerTwoMoves)

\* C8: on a non-terminal state with PlayerTwo to move in which an empty
\* cell completes a line for PlayerTwo, minimax(True) returns a move that
\* completes a PlayerTwo line, with a positive score equal to 10 minus the
\* number of moves on the board once that move is applied.
C8_TakesImmediateWin ==
    ( /\ AtBestReturn
      /\ Top.maximize
      /\ Top.self.currentPlayer = PLAYER_TWO
      /\ \E m \in Range(get_available_moves(Top.self)) :
            CompletesLineForTwo(Top.self, m) )
    => LET r == BestResult(Top)
       IN  /\ r.move \in Range(get_available_moves(Top.self))
           /\ CompletesLineForTwo(Top.self, r.move)
           /\ r.score > 0
           /\ r.score = 10 - (get_num_moves(Top.self) + 1)

\* PlayerTwo on {3,4} with 5 empty, PlayerOne threatening 2: the search
\* returns 5 with score 10 - 6
C8_Witness ==
    /\ AtBestReturn
    /\ Top.maximize
    /\ Top.self.allMoves = <<0, 3, 1, 4, 6>>
    /\ Top.self.currentPlayer = PLAYER_TWO
    /\ BestResult(Top) = [ move |-> 5, score |-> 4 ]

\* C9: a new game starts empty with PlayerOne to move, and after any
\* sequence of add_move calls the current player is PlayerOne when the
\* number of completed moves is even and PlayerTwo when it is odd.
C9_TurnFollowsMoveCount ==
    /\ calls = 0 => Game = NewGame
    /\ currentPlayer = IF get_num_moves(Game) % 2 = 0 THEN PLAYER_ONE ELSE PLAYER_TWO

\* C10: in every state of a game of the loop, every index of allMoves is
\* in [0,8] and occurs once, the two per-player lists are disjoint and
\* together hold the indices of allMoves, and a cell shows 'x' exactly when
\* its index is in PlayerOne's list, 'o' exactly when it is in PlayerTwo's
\* list, and is empty otherwise.
C10_HistoryAndBoardAgree ==
    /\ \A i \in 1 .. Len(allMoves) : allMoves[i] \in Cells
    /\ \A i, j \in 1 .. Len(allMoves) : i # j => allMoves[i] # allMoves[j]
    /\ Range(playerOneMoves) \cap Range(playerTwoMoves) = {}
    /\ Range(playerOneMoves) \cup Range(playerTwoMoves) = Range(allMoves)
    /\ Len(playerOneMoves) + Len(playerTwoMoves) = Len(allMoves)
    /\ \A c \in Cells :
          /\ currentBoard[c] = "x" <=> c \in Range(playerOneMoves)
          /\ currentBoard[c] = "o" <=> c \in Range(playerTwoMoves)
          /\ currentBoard[c] = " " <=> c \notin Range(allMoves)

\* a game of the loop played to a full board
C10_Witness ==
    /\ pc = "done"
    /\ Len(allMoves) = 9
    /\ Len(playerOneMoves) = 5
    /\ Len(playerTwoMoves) = 4
    /\ \A c \in Cells : currentBoard[c] # " "

\* at most one of the players holds a whole winning line in g
AtMostOneWinner(g) ==
    ~(HoldsLine(g.playerOneMoves) /\ HoldsLine(g.playerTwoMoves))

\* C11: in every state of the loop's game and in every hypothetical state
\* the search visits, at most one player holds all three cells of a winning
\* line: check_win never sees both players satisfy a line.
C11_AtMostOneWinner ==
    /\ AtMostOneWinner(Game)
    /\ pc = "minimax" => AtMostOneWinner(Top.self)

\* a hypothetical state of a search of the loop in which PlayerOne holds a
\* line and PlayerTwo does not
C11_Witness ==
    /\ pc = "minimax"
    /\ Len(stack) >= 2
    /\ HoldsLine(Top.self.playerOneMoves)
    /\ ~HoldsLine(Top.self.playerTwoMoves)
    /\ check_win(Top.self).winner = PLAYER_ONE

\* StepsTable[e + 1] is the number of steps the search of a game with e
\* empty cells takes at most: one return, and for each empty cell one call
\* and the search below it, S(0) = 1 and S(e) = 1 + e * (1 + S(e - 1))
StepsTable == << 1, 3, 9, 31, 129, 651, 3913, 27399, 219201, 1972819 >>

\* steps left in the call of the frame at depth d of the stack st, whose
\* outermost game has as many empty cells as moves are missing: the running
\* call returns at once when its game is over or its loop is done; a
\* waiting call has one branch running in the frame above it
FrameRank(st, d) ==
    LET e == (BoardSize - Len(st[1].self.allMoves)) - (d - 1)
        running == (d = Len(st))
        left == e - Len(st[d].scores) - (IF running THEN 0 ELSE 1)
    IN  IF left <= 0 \/ (running /\ FrameOver(st[d]))
        THEN 1
        ELSE left * (1 + StepsTable[e]) + 1

\* steps left in the calls of the frames from depth k upwards
RECURSIVE TailRank(_, _)
TailRank(st, k) ==
    IF k > Len(st) THEN 0 ELSE FrameRank(st, k) + TailRank(st, k + 1)

\* steps the running search takes at most before its outermost call returns
SearchRank == TailRank(stack, 1)

\* a step of the search leaves the frames below depth k as they are and
\* lowers the steps left from depth k upwards, hence SearchRank
LowersRank(k) ==
    /\ k >= 1
    /\ SubSeq(stack', 1, k - 1) = SubSeq(stack, 1, k - 1)
    /\ TailRank(stack', k) < TailRank(stack, k)
    /\ TailRank(stack', k) >= 1

\* C12: minimax terminates: every recursive call is made on a state with
\* exactly one available move fewer than its caller's, the recursion from a
\* state with k empty cells is at most k deep (at most 9), every branch ends
\* in a state where check_win reports over, and every step of the search
\* lowers a bound on the steps that remain.
C12_SearchTerminates ==
    /\ [] ( pc = "minimax" =>
             /\ Len(stack) >= 2 =>
                   Len(get_available_moves(Top.self))
                     = Len(get_available_moves(stack[Len(stack) - 1].self)) - 1
             /\ Len(stack) - 1 + Len(get_available_moves(Top.self))
                   = Len(get_available_moves(stack[1].self))
             /\ Len(stack) - 1 <= 9
             /\ ~FrameHasNext(Top) /\ Top.scores = << >> => FrameOver(Top) )
    /\ [][ pc = "minimax" /\ pc' = "minimax" =>
             LowersRank(IF Len(stack') < Len(stack) THEN Len(stack') ELSE Len(stack)) ]_vars
    /\ [][ pc = "minimax" /\ pc' # "minimax" => pc' = "returned" /\ stack' = << >> ]_vars

\* the search of a new game is nine calls deep, on a full board that is over
C12_Witness ==
    /\ pc = "minimax"
    /\ Len(stack) = 10
    /\ get_available_moves(stack[1].self) = BoardIndices
    /\ get_available_moves(Top.self) = << >>
    /\ FrameOver(Top)

(***************************************************************************)
(* C13                                                                     *)
(***************************************************************************)
\* the moves of g alternate, PlayerOne first: move 2j-1 is PlayerOne's j-th
\* and move 2j is PlayerTwo's j-th
MovesAlternate(g) ==
    /\ Len(g.playerOneMoves) = (Len(g.allMoves) + 1) \div 2
    /\ Len(g.playerTwoMoves) = Len(g.allMoves) \div 2
    /\ \A i \in 1 .. Len(g.allMoves) :
          g.allMoves[i] = IF i % 2 = 1 THEN g.playerOneMoves[(i + 1) \div 2]
                                       ELSE g.playerTwoMoves[i \div 2]

\* the loop is between a move and the check_win that follows it
AtCheck == pc \in {"check_player", "check_cpu"}

\* searches the loop has started so far
SearchesStarted == Len(ret) + (IF pc = "minimax" THEN 1 ELSE 0)

\* computer turns so far, the one whose move is still to be applied included
ComputerTurns ==
    Len(playerTwoMoves)
      + (IF pc \in {"minimax", "returned", "add_cpu_move"} THEN 1 ELSE 0)

\* C13: in the loop minimax is invoked exactly once per computer turn, always
\* with maximize = True, only on a game that is not over, whose last move is
\* the human's and whose current player is PlayerTwo; human and computer
\* moves alternate starting with the human, and check_win follows every
\* applied move.
C13_OneSearchPerComputerTurn ==
    /\ [] ( /\ SearchesStarted = ComputerTurns
            /\ \A i \in 1 .. Len(ret) : ret[i].maximize = TRUE
            /\ MovesAlternate(Game)
            /\ pc # "crashed"
            /\ ~AtCheck /\ allMoves # << >> =>
                  /\ gameOver = check_win(Game).over
                  /\ winner = check_win(Game).winner )
    /\ [][ stack = << >> /\ stack' # << >> =>
             /\ Len(stack') = 1
             /\ stack'[1].maximize = TRUE
             /\ stack'[1].self = Game
             /\ ~check_win(Game).over
             /\ currentPlayer = PLAYER_TWO
             /\ allMoves[Len(allMoves)] = playerMove
             /\ playerOneMoves[Len(playerOneMoves)] = playerMove ]_vars
    /\ [][ allMoves' # allMoves =>
             /\ AtCheck'
             /\ Len(allMoves') = Len(allMoves) + 1 ]_vars
    /\ [][ AtCheck => ~AtCheck' /\ allMoves' = allMoves ]_vars

\* a game of three computer turns has ended: three searches were made
C13_Witness ==
    /\ pc = "done"
    /\ Len(ret) = 3
    /\ Len(playerTwoMoves) = 3
    /\ Len(allMoves) = 6
    /\ winner = PLAYER_TWO

(***************************************************************************)
(* C14                                                                     *)
(***************************************************************************)
\* the game of the running call is its caller's game plus one move, the one
\* the caller's loop is at, and nothing else
OneMoveFromCaller(caller, g) ==
    LET m == FramePossibleMove(caller)
        c == caller.self
        symbol == IF c.currentPlayer = PLAYER_ONE THEN "x" ELSE "o"
    IN  /\ c.currentBoard[m] = " "
        /\ g.currentBoard = [ c.currentBoard EXCEPT ![m] = symbol ]
        /\ g.allMoves = Append(c.allMoves, m)
        /\ MovesOf(g, c.currentPlayer) = Append(MovesOf(c, c.currentPlayer), m)
        /\ MovesOf(g, LastMover(c)) = MovesOf(c, LastMover(c))
        /\ g.currentPlayer = LastMover(c)

\* a step of the search keeps the game and the flag of every call that stays
\* on the stack; k is the depth of the topmost call that stays
KeepsCallers(k) ==
    /\ SubSeq(stack', 1, k - 1) = SubSeq(stack, 1, k - 1)
    /\ stack'[k].self = stack[k].self
    /\ stack'[k].maximize = stack[k].maximize

\* C14: minimax does not change the game it is called on: board, move lists
\* and current player of the receiver are the same from the call to the
\* return, in the outermost call and in every recursive one, and every
\* successor explored at one level is that unchanged game plus the one move
\* of its branch, so no branch sees a move of a sibling branch.
C14_SearchLeavesGameUnchanged ==
    /\ [] ( pc = "minimax" =>
             /\ stack[1].self = Game
             /\ Len(stack) >= 2 => OneMoveFromCaller(stack[Len(stack) - 1], Top.self) )
    /\ [][ (pc \in {"minimax_call", "minimax", "returned"}) => UNCHANGED gameVars ]_vars
    /\ [][ pc = "minimax" /\ pc' = "minimax" =>
             KeepsCallers(IF Len(stack') < Len(stack) THEN Len(stack') ELSE Len(stack)) ]_vars

\* the outermost call is at its last branch after seven branches returned:
\* its game is still the loop's game
C14_Witness ==
    /\ pc = "minimax"
    /\ Len(stack) = 2
    /\ Len(stack[1].scores) = 7
    /\ Len(get_available_moves(Game)) = 8
    /\ stack[1].self = Game

(***************************************************************************)
(* C15                                                                     *)
(***************************************************************************)
\* r is what the claim says the call of frame f returns once all successors
\* of its game have been searched: scores[k] is the score returned by the
\* search of the k-th successor in ascending index order, moves[k] the move
\* that search reported
IsBest(f, r) ==
    LET avail == get_available_moves(f.self)
    IN  /\ Len(f.scores) = Len(avail)
        /\ Len(f.moves) = Len(avail)
        /\ \E k \in 1 .. Len(avail) :
              /\ \A j \in 1 .. Len(avail) :
                    IF f.maximize THEN f.scores[j] <= f.scores[k]
                                  ELSE f.scores[j] >= f.scores[k]
              /\ \A j \in 1 .. (k - 1) : f.scores[j] # f.scores[k]
              /\ r.score = f.scores[k]
              /\ r.move = IF f.maximize THEN avail[k] ELSE f.moves[k]

Last(seq) == seq[Len(seq)]

\* the running call returns: its value lands with its caller, who appends
\* the score and, when minimising, the reported move
LandsAsClaimed ==
    IF Len(stack) = 1
    THEN IsBest(Top, Last(ret'))
    ELSE LET caller == stack[Len(stack) - 1]
             after == stack'[Len(stack) - 1]
         IN  /\ Len(after.scores) = Len(caller.scores) + 1
             /\ Len(after.moves) = Len(caller.moves) + 1
             /\ SubSeq(after.scores, 1, Len(caller.scores)) = caller.scores
             /\ SubSeq(after.moves, 1, Len(caller.moves)) = caller.moves
             /\ IF caller.maximize
                THEN /\ Last(after.moves) = FramePossibleMove(caller)
                     /\ \E m \in Cells :
                           IsBest(Top, [ move |-> m, score |-> Last(after.scores) ])
                ELSE IsBest(Top, [ move |-> Last(after.moves),
                                   score |-> Last(after.scores) ])

\* C15: on a game that is not over minimax(True) returns the maximum of the
\* scores of the searches of all successors and the lowest available index
\* whose successor attains it; minimax(False) returns the minimum of those
\* scores, taken from the first successor in ascending index order that
\* attains it, and the move that successor's search reported.
C15_BestOfSuccessors ==
    /\ [] ( AtBestReturn => IsBest(Top, BestResult(Top)) )
    /\ [][ AtBestReturn /\ stack' # stack => LandsAsClaimed ]_vars

\* a maximising call returns with a tie between its first and a later
\* successor, and reports the first
C15_Witness ==
    /\ AtBestReturn
    /\ Top.maximize
    /\ Len(Top.scores) >= 3
    /\ Top.scores[1] = BestScore(TRUE, Top.scores)
    /\ Top.scores[3] = Top.scores[1]
    /\ BestResult(Top).move = get_available_moves(Top.self)[1]

(***************************************************************************)
(* C16                                                                     *)
(***************************************************************************)
\* the score the claim gives a finished game, from the lines on its board
ClaimedTerminalScore(g) ==
    IF HoldsLine(g.playerOneMoves) THEN Len(g.allMoves) - 10
    ELSE IF HoldsLine(g.playerTwoMoves) THEN 10 - Len(g.allMoves)
    ELSE 0

ScoreRange == -5 .. 4

\* C16: for every finished game reached by alternating play that stops at
\* the first finished game, the score minimax returns is moveCount - 10 and
\* negative when PlayerOne won, 10 - moveCount and positive when PlayerTwo
\* won, and 0 on a draw; every score returned by any search is in -5..4.
C16_TerminalScores ==
    /\ pc = "minimax" /\ FrameOver(Top) =>
          LET g == Top.self
              r == TerminalResult(g, check_win(g))
          IN  /\ r.score = ClaimedTerminalScore(g)
              /\ HoldsLine(g.playerOneMoves) => r.score < 0
              /\ HoldsLine(g.playerTwoMoves) => r.score > 0
              /\ r.score \in ScoreRange
    /\ AtBestReturn => BestResult(Top).score \in ScoreRange
    /\ pc = "minimax" /\ Top.scores # << >> => Last(Top.scores) \in ScoreRange
    /\ \A i \in 1 .. Len(ret) : ret[i].score \in ScoreRange

\* the search is at a game PlayerOne won with the fifth move: score -5
C16_Witness ==
    /\ pc = "minimax"
    /\ FrameOver(Top)
    /\ Len(Top.self.allMoves) = 5
    /\ HoldsLine(Top.self.playerOneMoves)
    /\ TerminalResult(Top.self, check_win(Top.self)).score = -5

(***************************************************************************)
(* C17                                                                     *)
(***************************************************************************)
\* C17: in every search the loop starts, at every call of minimax, the
\* outermost and every recursive one, the flag is True exactly when the
\* current player of the game searched is PlayerTwo.
C17_FlagFollowsPlayer ==
    pc = "minimax" =>
        (Top.maximize <=> Top.self.currentPlayer = PLAYER_TWO)

\* a recursive call two levels below the loop's call: flag True again,
\* PlayerTwo to move
C17_Witness ==
    /\ pc = "minimax"
    /\ Len(stack) = 3
    /\ Top.maximize
    /\ Top.self.currentPlayer = PLAYER_TWO
    /\ ~stack[2].maximize
    /\ stack[2].self.currentPlayer = PLAYER_ONE

(***************************************************************************)
(* C18                                                                     *)
(***************************************************************************)
\* moveIndex is an index in [0,8] of a cell of g that is empty
TargetsEmptyCell(g, moveIndex) ==
    /\ moveIndex \in 0 .. 8
    /\ g.currentBoard[moveIndex] = " "

\* C18: in every run of the loop, every call of add_move - for the human's
\* validated input, for the move minimax returned, and on the copies inside
\* the search - targets an index in [0,8] whose cell is empty at the time
\* of the call, so no occupied cell is ever overwritten.
C18_AddMoveTargetsEmptyCell ==
    /\ [] ( /\ pc = "add_player_move" => TargetsEmptyCell(Game, playerMove)
            /\ pc = "add_cpu_move" => TargetsEmptyCell(Game, cpuMove)
            /\ pc = "minimax" /\ ~FrameOver(Top) /\ FrameHasNext(Top) =>
                  TargetsEmptyCell(Top.self, FramePossibleMove(Top))
            /\ pc # "crashed" )
    /\ [][ \A i \in Cells :
             currentBoard[i] # " " => currentBoard'[i] = currentBoard[i] ]_vars

\* the loop is about to apply the computer's first move, returned by the
\* search, to a cell that is empty
C18_Witness ==
    /\ pc = "add_cpu_move"
    /\ Len(allMoves) = 1
    /\ Len(ret) = 1
    /\ cpuMove = ret[1].move
    /\ TargetsEmptyCell(Game, cpuMove)

(***************************************************************************)
(* C19                                                                     *)
(***************************************************************************)
\* C19: provided the human eventually supplies a valid move at each prompt,
\* every game of the loop eventually reaches a finished game and leaves the
\* loop, after at most 9 applied moves (at most 5 of the human and 4 of the
\* computer), and no move is applied once check_win has reported over.
C19_GameEnds ==
    /\ <>(pc = "done")
    /\ [] ( /\ pc = "done" => gameOver /\ check_win(Game).over
            /\ Len(allMoves) <= 9
            /\ Len(playerOneMoves) <= 5
            /\ Len(playerTwoMoves) <= 4 )
    /\ [][ gameOver \/ check_win(Game).over => UNCHANGED gameVars ]_vars

\* the loop was left after nine moves, five of the human and four of the
\* computer, with a draw
C19_Witness ==
    /\ pc = "done"
    /\ gameOver
    /\ winner = NO_WINNER
    /\ Len(allMoves) = 9
    /\ Len(playerOneMoves) = 5
    /\ Len(playerTwoMoves) = 4

(***************************************************************************)
(* C20                                                                     *)
(***************************************************************************)
\* C20: within one game of the loop the scores returned by the successive
\* minimax(True) calls never decrease from one computer turn to the next,
\* whatever the human plays in between, and the score of the finished game
\* that ends the loop is at least the score of the last minimax(True) call.
C20_ScoresNeverDecrease ==
    /\ [][ score # Unbound => score' >= score ]_vars
    /\ [] ( pc = "done" =>
             /\ score # Unbound
             /\ ClaimedTerminalScore(Game) >= score
             /\ TerminalScore(Game, winner) >= score )

\* the computer has won with its third move: its searches returned 0 after
\* the human's first move and later 4, the score of the finished game
C20_Witness ==
    /\ pc = "done"
    /\ winner = PLAYER_TWO
    /\ Len(playerTwoMoves) = 3
    /\ score = 4
    /\ ClaimedTerminalScore(Game) = 4
====
